---- MODULE Spec2Model ----
(***************************************************************************)
(* Model of warned_dataclasses/__init__.py: the deferred-warning registry  *)
(* DEFERRED_WARNINGS, the DeferredWarning objects, the field() factory and *)
(* the dataclass decorator with its registration hook.                     *)
(*                                                                         *)
(* The module is written against the dataclasses internals of Python 3.8   *)
(* and 3.9: _process_class takes seven positional arguments and            *)
(* Field.__init__ seven.  The native step stores the finalized field table *)
(* in cls.__dataclass_fields__, a dict from field name to Field object;    *)
(* iterating a dict yields its keys.                                       *)
(***************************************************************************)
EXTENDS Integers, Sequences, FiniteSets, TLC

(* ------------------------------ bounds --------------------------------- *)
MaxFieldObjs == 2
MaxClasses == 2
MaxBody == 2

Conds == {"x", "y"}

VARIABLES
    deferred_warnings,  \* heap of DeferredWarning objects, identity = index
    warned_fields,      \* heap of WarnedField objects, identity = index
    classes,            \* class objects that went through _process_class
    DEFERRED_WARNINGS,  \* the registry: insertion-ordered dict key -> list
    supplied,           \* WarnedField objects some instance got a value for
                        \* while the condition of their warning was unsatisfied
    last                \* what the last call did (result, log output)

vars == <<deferred_warnings, warned_fields, classes, DEFERRED_WARNINGS, supplied, last>>

(* ------------------------- DeferredWarning ----------------------------- *)
\* message is <<>> for None, else the text built by deferred_message
NoMessage == <<>>

\* the lambda of field(): the text depends on the parameter and the condition
deferred_message(condition, parameter) == <<"Value provided for --", parameter, condition>>

DeferredWarning_init(condition, error) ==
    [condition |-> condition, satisfied |-> FALSE, error |-> error, message |-> NoMessage]

\* satisfy() as it would be if it also dropped the message
DeferredWarning_satisfy_disarming(dw) == [dw EXCEPT !.satisfied = TRUE, !.message = NoMessage]

DeferredWarning_satisfy(dw) == [dw EXCEPT !.satisfied = TRUE]

\* supply_parameter() as it would be if arming reset the satisfied flag
DeferredWarning_supply_parameter_rearming(dw, param) ==
    [dw EXCEPT !.message = deferred_message(dw.condition, param), !.satisfied = FALSE]

DeferredWarning_supply_parameter(dw, param) ==
    [dw EXCEPT !.message = deferred_message(dw.condition, param)]

\* invoke() as it would be if the message were checked before the satisfied flag
DeferredWarning_invoke_message_first(dw) ==
    IF dw.message = NoMessage THEN "ValueError"
    ELSE IF dw.satisfied THEN "noop"
    ELSE IF dw.error THEN "ConditionalParameterError"
    ELSE "log"

\* what one call of DeferredWarning.invoke() does: nothing, a log line, or a raise
DeferredWarning_invoke(dw) ==
    IF ~dw.satisfied
    THEN IF dw.message = NoMessage THEN "ValueError"
         ELSE IF dw.error THEN "ConditionalParameterError"
         ELSE "log"
    ELSE "noop"

(* ----------------------- the registry (a defaultdict) ------------------ *)
Keys(reg) == {reg[i].key : i \in 1..Len(reg)}

GetItem(reg, key) == reg[CHOOSE i \in 1..Len(reg) : reg[i].key = key].list

\* DEFERRED_WARNINGS[key].append(w): the default list is created on first use
AppendItem(reg, key, w) ==
    IF key \in Keys(reg)
    THEN [i \in 1..Len(reg) |->
            IF reg[i].key = key THEN [reg[i] EXCEPT !.list = Append(@, w)] ELSE reg[i]]
    ELSE Append(reg, [key |-> key, list |-> <<w>>])

RECURSIVE satisfy_loop(_, _, _)
satisfy_loop(list, i, dws) ==
    IF i > Len(list) THEN dws
    ELSE satisfy_loop(list, i + 1,
                      [dws EXCEPT ![list[i]] = DeferredWarning_satisfy(@)])

RECURSIVE invoke_loop(_, _, _, _)
invoke_loop(list, i, dws, logged) ==
    IF i > Len(list) THEN [result |-> "ok", logged |-> logged, raised |-> 0]
    ELSE LET o == DeferredWarning_invoke(dws[list[i]]) IN
         IF o = "noop" THEN invoke_loop(list, i + 1, dws, logged)
         ELSE IF o = "log"
              THEN invoke_loop(list, i + 1, dws,
                               Append(logged, [dw |-> list[i], message |-> dws[list[i]].message]))
              ELSE [result |-> o, logged |-> logged, raised |-> list[i]]

\* module-level invoke(key) as a function of the state
invoke_call(key, reg, dws, logged) ==
    IF key \notin Keys(reg)
    THEN [result |-> "KeyError", logged |-> logged, raised |-> 0]
    ELSE invoke_loop(GetItem(reg, key), 1, dws, logged)

RECURSIVE invoke_all_loop(_, _, _, _, _)
invoke_all_loop(reg, k, dws, logged, invoked) ==
    IF k > Len(reg)
    THEN [result |-> "ok", logged |-> logged, raised |-> 0, invoked |-> invoked]
    ELSE LET r == invoke_call(reg[k].key, reg, dws, logged) IN
         IF r.result = "ok"
         THEN invoke_all_loop(reg, k + 1, dws, r.logged, Append(invoked, reg[k].key))
         ELSE [result |-> r.result, logged |-> r.logged, raised |-> r.raised,
               invoked |-> Append(invoked, reg[k].key)]

(* ------------------------- outcome of a call --------------------------- *)
Outcome(op, key, result, logged, raised, invoked, ret, follows) ==
    [op |-> op, key |-> key, result |-> result, logged |-> logged, raised |-> raised,
     invoked |-> invoked, ret |-> ret, follows |-> follows]

Init ==
    /\ deferred_warnings = <<>>
    /\ warned_fields = <<>>
    /\ classes = <<>>
    /\ DEFERRED_WARNINGS = <<>>
    /\ supplied = {}
    /\ last = Outcome("init", "-", "ok", <<>>, 0, <<>>, 0, FALSE)

(* ------------------------------ field() -------------------------------- *)
\* field() as it would be if the warning were registered when it is created
field_registering(condition, error_on_invoke, both) ==
    /\ Len(warned_fields) < MaxFieldObjs
    /\ IF condition # "None"
       THEN /\ deferred_warnings' =
                  Append(deferred_warnings, DeferredWarning_init(condition, error_on_invoke))
            /\ DEFERRED_WARNINGS' =
                  AppendItem(DEFERRED_WARNINGS, condition, Len(deferred_warnings) + 1)
            /\ warned_fields' =
                  IF both THEN warned_fields
                  ELSE Append(warned_fields, [deferred_warning |-> Len(deferred_warnings) + 1])
       ELSE /\ UNCHANGED <<deferred_warnings, DEFERRED_WARNINGS>>
            /\ warned_fields' =
                  IF both THEN warned_fields
                  ELSE Append(warned_fields, [deferred_warning |-> 0])
    /\ last' = Outcome("field", condition, IF both THEN "ValueError" ELSE "ok", <<>>, 0, <<>>,
                       IF both THEN 0 ELSE Len(warned_fields) + 1, FALSE)
    /\ UNCHANGED <<classes, supplied>>

\* condition "None" stands for condition=None; both: default and default_factory given
field(condition, error_on_invoke, both) ==
    /\ Len(warned_fields) < MaxFieldObjs
    /\ IF both
       THEN \* the DeferredWarning built before the check is dropped with the frame
            /\ last' = Outcome("field", condition, "ValueError", <<>>, 0, <<>>, 0, FALSE)
            /\ UNCHANGED <<deferred_warnings, warned_fields>>
       ELSE /\ IF condition # "None"
               THEN /\ deferred_warnings' =
                          Append(deferred_warnings, DeferredWarning_init(condition, error_on_invoke))
                    /\ warned_fields' =
                          Append(warned_fields, [deferred_warning |-> Len(deferred_warnings) + 1])
               ELSE /\ UNCHANGED deferred_warnings
                    /\ warned_fields' = Append(warned_fields, [deferred_warning |-> 0])
            /\ last' = Outcome("field", condition, "ok", <<>>, 0, <<>>,
                               Len(warned_fields) + 1, FALSE)
    /\ UNCHANGED <<classes, DEFERRED_WARNINGS, supplied>>

(* ------------------------------ satisfy -------------------------------- *)
\* satisfy(key) as it would be without the membership test: reading
\* DEFERRED_WARNINGS[key] on the defaultdict creates the key
satisfy_creating_key(key) ==
    /\ DEFERRED_WARNINGS' =
          IF key \in Keys(DEFERRED_WARNINGS) THEN DEFERRED_WARNINGS
          ELSE Append(DEFERRED_WARNINGS, [key |-> key, list |-> <<>>])
    /\ deferred_warnings' =
          satisfy_loop(GetItem(DEFERRED_WARNINGS', key), 1, deferred_warnings)
    /\ last' = Outcome("satisfy", key, "ok", <<>>, 0, <<>>, 0,
                       last.op = "satisfy" /\ last.key = key)
    /\ UNCHANGED <<warned_fields, classes, supplied>>

satisfy(key) ==
    /\ IF key \notin Keys(DEFERRED_WARNINGS)
       THEN /\ last' = Outcome("satisfy", key, "KeyError", <<>>, 0, <<>>, 0,
                               last.op = "satisfy" /\ last.key = key)
            /\ UNCHANGED deferred_warnings
       ELSE /\ deferred_warnings' =
                  satisfy_loop(GetItem(DEFERRED_WARNINGS, key), 1, deferred_warnings)
            /\ last' = Outcome("satisfy", key, "ok", <<>>, 0, <<>>, 0,
                               last.op = "satisfy" /\ last.key = key)
    /\ UNCHANGED <<warned_fields, classes, DEFERRED_WARNINGS, supplied>>

(* ------------------------------- invoke -------------------------------- *)
\* invoke(key) as it would be without the membership test: reading
\* DEFERRED_WARNINGS[key] on the defaultdict creates the key
invoke_creating_key(key) ==
    /\ DEFERRED_WARNINGS' =
          IF key \in Keys(DEFERRED_WARNINGS) THEN DEFERRED_WARNINGS
          ELSE Append(DEFERRED_WARNINGS, [key |-> key, list |-> <<>>])
    /\ LET r == invoke_call(key, DEFERRED_WARNINGS', deferred_warnings, <<>>) IN
       last' = Outcome("invoke", key, r.result, r.logged, r.raised, <<>>, 0,
                       last.op = "satisfy" /\ last.key = key)
    /\ UNCHANGED <<deferred_warnings, warned_fields, classes, supplied>>

invoke(key) ==
    /\ LET r == invoke_call(key, DEFERRED_WARNINGS, deferred_warnings, <<>>) IN
       last' = Outcome("invoke", key, r.result, r.logged, r.raised, <<>>, 0,
                       last.op = "satisfy" /\ last.key = key)
    /\ UNCHANGED <<deferred_warnings, warned_fields, classes, DEFERRED_WARNINGS, supplied>>

invoke_all ==
    /\ LET r == invoke_all_loop(DEFERRED_WARNINGS, 1, deferred_warnings, <<>>, <<>>) IN
       last' = Outcome("invoke_all", "-", r.result, r.logged, r.raised, r.invoked, 0, FALSE)
    /\ UNCHANGED <<deferred_warnings, warned_fields, classes, DEFERRED_WARNINGS, supplied>>

(* ---------------- the native step and the registration hook ------------ *)
Entry(name, obj) == [name |-> name, obj |-> obj]

TableNames(table) == {table[i].name : i \in 1..Len(table)}

\* fields[name] = f on the dict being built: a known key keeps its position
SetItem(table, name, obj) ==
    IF name \in TableNames(table)
    THEN [i \in 1..Len(table) |-> IF table[i].name = name THEN Entry(name, obj) ELSE table[i]]
    ELSE Append(table, Entry(name, obj))

RECURSIVE SetItems(_, _, _)
SetItems(table, body, i) ==
    IF i > Len(body) THEN table
    ELSE SetItems(SetItem(table, body[i].name, body[i].obj), body, i + 1)

\* dataclasses._process_class: the fields of the base first, then the own ones;
\* the result is cls.__dataclass_fields__
process_class(base_fields, body) == SetItems(base_fields, body, 1)

\* iterating a dict yields its keys: here the field names, which are str objects
dict_iter(table) == [i \in 1..Len(table) |-> [type |-> "str", value |-> table[i].name]]

\* does the object have the slot _deferred_warning; only a WarnedField has
has_deferred_warning(item) == item.type = "WarnedField"

\* the for loop of _warned_process_class over the iterated items
RECURSIVE warned_process_class_loop(_, _, _, _, _)
warned_process_class_loop(items, i, wfs, reg, dws) ==
    IF i > Len(items) THEN [result |-> "ok", reg |-> reg, dws |-> dws]
    ELSE IF ~has_deferred_warning(items[i])
         THEN [result |-> "AttributeError", reg |-> reg, dws |-> dws]
         ELSE LET w == wfs[items[i].obj].deferred_warning IN
              IF w = 0
              THEN \* None.supply_parameter
                   [result |-> "AttributeError", reg |-> reg, dws |-> dws]
              ELSE warned_process_class_loop(items, i + 1, wfs,
                        AppendItem(reg, dws[w].condition, w),
                        [dws EXCEPT ![w] = DeferredWarning_supply_parameter(@, items[i].name)])

warned_process_class(table, wfs, reg, dws) ==
    warned_process_class_loop(dict_iter(table), 1, wfs, reg, dws)

\* what _warned_process_class returns when it does not raise: it has no
\* return statement, so None (0); class objects are numbered from 1
warned_process_class_return(cls) == 0

\* the attribute names of a class body, in the order they are written
FieldNames == <<"a", "b", "c">>

\* class bodies: up to MaxBody attributes, each bound to a different object
\* made by field()
Bodies ==
    {b \in UNION {[1..n -> 1..Len(warned_fields)] : n \in 0..MaxBody} :
        \A i, j \in 1..Len(b) : b[i] = b[j] => i = j}

BodyEntries(b) == [i \in 1..Len(b) |-> Entry(FieldNames[i], b[i])]

\* dataclass used as @dataclass (parens FALSE) or @dataclass() (parens TRUE)
\* on a class with the given base (0: none) and the given own fields
dataclass(parens, base, body) ==
    /\ Len(classes) < MaxClasses
    /\ LET table == process_class(IF base = 0 THEN <<>> ELSE classes[base].fields,
                                   BodyEntries(body))
           cls == Len(classes) + 1
           r == warned_process_class(table, warned_fields, DEFERRED_WARNINGS, deferred_warnings)
       IN /\ classes' = Append(classes, [fields |-> table])
          /\ DEFERRED_WARNINGS' = r.reg
          /\ deferred_warnings' = r.dws
          /\ last' = Outcome("dataclass", IF parens THEN "()" ELSE "-", r.result, <<>>, 0, <<>>,
                             IF r.result = "ok" THEN warned_process_class_return(cls) ELSE 0,
                             FALSE)
    /\ UNCHANGED <<warned_fields, supplied>>

\* construction as it would be if warnings were armed per instance: the
\* warning of every field that is given a value gets its message anew
construct_arming(cls, names) ==
    /\ names \subseteq TableNames(classes[cls].fields)
    /\ supplied' = supplied \cup
          {classes[cls].fields[i].obj : i \in
              {j \in 1..Len(classes[cls].fields) :
                  /\ classes[cls].fields[j].name \in names
                  /\ LET w == warned_fields[classes[cls].fields[j].obj].deferred_warning
                     IN w # 0 /\ ~deferred_warnings[w].satisfied}}
    /\ deferred_warnings' =
          [w \in 1..Len(deferred_warnings) |->
              IF \E j \in 1..Len(classes[cls].fields) :
                    /\ classes[cls].fields[j].name \in names
                    /\ warned_fields[classes[cls].fields[j].obj].deferred_warning = w
              THEN DeferredWarning_supply_parameter(deferred_warnings[w], "value")
              ELSE deferred_warnings[w]]
    /\ last' = Outcome("construct", "-", "ok", <<>>, 0, <<>>, cls, FALSE)
    /\ UNCHANGED <<warned_fields, classes, DEFERRED_WARNINGS>>

\* cls(**kwargs) through the __init__ the native step generated: the values
\* are stored on the instance, nothing of this module runs
construct(cls, names) ==
    /\ names \subseteq TableNames(classes[cls].fields)
    /\ supplied' = supplied \cup
          {classes[cls].fields[i].obj : i \in
              {j \in 1..Len(classes[cls].fields) :
                  /\ classes[cls].fields[j].name \in names
                  /\ LET w == warned_fields[classes[cls].fields[j].obj].deferred_warning
                     IN w # 0 /\ ~deferred_warnings[w].satisfied}}
    /\ last' = Outcome("construct", "-", "ok", <<>>, 0, <<>>, cls, FALSE)
    /\ UNCHANGED <<deferred_warnings, warned_fields, classes, DEFERRED_WARNINGS>>

(* ------------- the methods of a DeferredWarning, called directly ------- *)
warning_satisfy(w) ==
    /\ deferred_warnings' = [deferred_warnings EXCEPT ![w] = DeferredWarning_satisfy(@)]
    /\ last' = Outcome("warning_satisfy", "-", "ok", <<>>, 0, <<>>, w, FALSE)
    /\ UNCHANGED <<warned_fields, classes, DEFERRED_WARNINGS, supplied>>

warning_supply_parameter(w, param) ==
    /\ deferred_warnings' =
          [deferred_warnings EXCEPT ![w] = DeferredWarning_supply_parameter(@, param)]
    /\ last' = Outcome("warning_supply_parameter", "-", "ok", <<>>, 0, <<>>, w, FALSE)
    /\ UNCHANGED <<warned_fields, classes, DEFERRED_WARNINGS, supplied>>

warning_invoke(w) ==
    /\ LET r == invoke_loop(<<w>>, 1, deferred_warnings, <<>>) IN
       last' = Outcome("warning_invoke", "-", r.result, r.logged, r.raised, <<>>, w, FALSE)
    /\ UNCHANGED <<deferred_warnings, warned_fields, classes, DEFERRED_WARNINGS, supplied>>

Next ==
    \/ \E c \in Conds \cup {"None"}, e \in BOOLEAN, b \in BOOLEAN : field(c, e, b)
    \/ \E p \in BOOLEAN, base \in 0..Len(classes), body \in Bodies : dataclass(p, base, body)
    \/ \E cls \in 1..Len(classes) :
          \E names \in SUBSET TableNames(classes[cls].fields) : construct(cls, names)
    \/ \E k \in Conds : satisfy(k)
    \/ \E k \in Conds : invoke(k)
    \/ invoke_all

Spec == Init /\ [][Next]_vars

\* the parameter a direct caller hands to supply_parameter
Params == {FieldNames[1]}

NextMethods ==
    \/ Next
    \/ \E w \in 1..Len(deferred_warnings) : warning_satisfy(w)
    \/ \E w \in 1..Len(deferred_warnings), p \in Params : warning_supply_parameter(w, p)
    \/ \E w \in 1..Len(deferred_warnings) : warning_invoke(w)

SpecMethods == Init /\ [][NextMethods]_vars

(* ======================== the claims of the specification ============== *)
\* The conditions the program has declared: those of the warnings carried by
\* the fields of the finalized field tables, in class-definition order and,
\* within a class, in field order.
RECURSIVE TableWarnings(_, _)
TableWarnings(table, i) ==
    IF i > Len(table) THEN <<>>
    ELSE LET w == warned_fields[table[i].obj].deferred_warning IN
         (IF w # 0 THEN <<w>> ELSE <<>>) \o TableWarnings(table, i + 1)

RECURSIVE DeclaredFrom(_)
DeclaredFrom(k) ==
    IF k > Len(classes) THEN <<>>
    ELSE TableWarnings(classes[k].fields, 1) \o DeclaredFrom(k + 1)

DeclaredWarnings == DeclaredFrom(1)

IsUnder(c, w) == deferred_warnings[w].condition = c

DeclaredUnder(c) == SelectSeq(DeclaredWarnings, LAMBDA w : IsUnder(c, w))

Declared(c) == DeclaredUnder(c) # <<>>

RECURSIVE KeysInOrder(_, _, _)
KeysInOrder(ws, i, seen) ==
    IF i > Len(ws) THEN <<>>
    ELSE LET c == deferred_warnings[ws[i]].condition IN
         IF c \in seen THEN KeysInOrder(ws, i + 1, seen)
         ELSE <<c>> \o KeysInOrder(ws, i + 1, seen \cup {c})

DeclaredKeys == KeysInOrder(DeclaredWarnings, 1, {})

Range(seq) == {seq[i] : i \in 1..Len(seq)}

Unsatisfied(w) == ~deferred_warnings[w].satisfied

IsError(w) == deferred_warnings[w].error

\* position of the first unsatisfied error-mode warning of ws, Len(ws) + 1 if none
FirstError(ws) ==
    LET hits == {i \in 1..Len(ws) : Unsatisfied(ws[i]) /\ IsError(ws[i])} IN
    IF hits = {} THEN Len(ws) + 1 ELSE CHOOSE i \in hits : \A j \in hits : i <= j

LoggedWarnings == [i \in 1..Len(last.logged) |-> last.logged[i].dw]

\* C1: for a declared condition c, invoke(c) called right after satisfy(c)
\* raises nothing and logs nothing.
C1_SatisfyThenInvokeSilent ==
    (last.op = "invoke" /\ last.follows /\ Declared(last.key))
        => (last.result = "ok" /\ last.logged = <<>>)

\* C2: invoke(c) goes through the warnings declared under c in registration
\* order, logs the unsatisfied non-error ones up to the first unsatisfied
\* error-mode warning, raises ConditionalParameterError there and evaluates
\* nothing after it.
C2_StopsAtFirstError ==
    (last.op = "invoke" /\ Declared(last.key)) =>
        LET ws == DeclaredUnder(last.key)
            e == FirstError(ws)
        IN /\ LoggedWarnings =
                 SelectSeq(SubSeq(ws, 1, e - 1), LAMBDA w : Unsatisfied(w))
           /\ IF e <= Len(ws)
              THEN last.result = "ConditionalParameterError" /\ last.raised = ws[e]
              ELSE last.result = "ok"

\* C3: when every warning declared under c is non-error and unsatisfied, one
\* invoke(c) logs exactly one message per warning and does not raise.
C3_OneLogPerWarning ==
    (/\ last.op = "invoke"
     /\ Declared(last.key)
     /\ \A w \in Range(DeclaredUnder(last.key)) : ~IsError(w) /\ Unsatisfied(w))
        => /\ last.result = "ok"
           /\ \A w \in Range(DeclaredUnder(last.key)) :
                 Cardinality({i \in 1..Len(last.logged) : last.logged[i].dw = w}) = 1

\* C4: satisfy(key) and invoke(key) fail with KeyError exactly when no field
\* of a finalized record type has declared key.
C4_KeyErrorIffUndeclared ==
    last.op \in {"satisfy", "invoke"}
        => (last.result = "KeyError" <=> ~Declared(last.key))

\* C5: the decorator completes without error for any mix of fields; a field
\* that carries a warning gets its message from the field name and is
\* appended to the registry under its condition, a field without one is
\* skipped.
C5_DecoratorRegistersFields ==
    last.op = "dataclass" =>
        /\ last.result = "ok"
        /\ LET table == classes[Len(classes)].fields IN
           \A i \in 1..Len(table) :
              LET w == warned_fields[table[i].obj].deferred_warning IN
              w # 0 =>
                 /\ deferred_warnings[w].message =
                       deferred_message(deferred_warnings[w].condition, table[i].name)
                 /\ deferred_warnings[w].condition \in Keys(DEFERRED_WARNINGS)
                 /\ w \in Range(GetItem(DEFERRED_WARNINGS, deferred_warnings[w].condition))

\* C6: the decorator, with or without parentheses, returns the class that was
\* passed in.
C6_ReturnsTheClass ==
    (last.op = "dataclass" /\ last.result = "ok") => last.ret = Len(classes)

\* C8: a warning of a field is logged or raised only if some instance was
\* given a value for that field while the condition was not satisfied.
C8_FiresOnlyIfSupplied ==
    \A w \in Range(LoggedWarnings) \cup
              (IF last.result = "ConditionalParameterError" THEN {last.raised} ELSE {}) :
        \E f \in supplied : warned_fields[f].deferred_warning = w

\* C9: two fields declared with the same condition are two distinct warnings
\* in the one sequence of that key, and invoke_all() with nothing satisfied
\* fires both.
C9_SharedKeyHoldsBoth ==
    \A w1, w2 \in Range(DeclaredWarnings) :
        (w1 # w2 /\ deferred_warnings[w1].condition = deferred_warnings[w2].condition) =>
            LET c == deferred_warnings[w1].condition IN
            /\ c \in Keys(DEFERRED_WARNINGS)
            /\ {w1, w2} \subseteq Range(GetItem(DEFERRED_WARNINGS, c))
            /\ (/\ last.op = "invoke_all"
                /\ \A w \in Range(DeclaredWarnings) : Unsatisfied(w) /\ ~IsError(w))
                  => {w1, w2} \subseteq Range(LoggedWarnings)

\* C10: invoke_all() invokes the declared keys in order of first
\* registration, up to and including the first key whose invoke raises
\* ConditionalParameterError, which it lets through.
C10_InvokeAllInKeyOrder ==
    last.op = "invoke_all" =>
        LET raising == {k \in 1..Len(DeclaredKeys) :
                           FirstError(DeclaredUnder(DeclaredKeys[k]))
                               <= Len(DeclaredUnder(DeclaredKeys[k]))}
            stop == IF raising = {} THEN Len(DeclaredKeys)
                    ELSE CHOOSE k \in raising : \A j \in raising : k <= j
        IN /\ last.invoked = SubSeq(DeclaredKeys, 1, stop)
           /\ last.result = IF raising = {} THEN "ok" ELSE "ConditionalParameterError"

\* C11: field() never changes the registry, whether it returns a field or
\* fails on default plus default_factory; a condition named only in field()
\* calls whose class is not finalized stays undeclared: satisfy and invoke
\* of it fail with KeyError.
C11_FieldLeavesRegistry ==
    /\ [][last'.op = "field" => DEFERRED_WARNINGS' = DEFERRED_WARNINGS]_vars
    /\ [](\A c \in Conds : ~Declared(c) => c \notin Keys(DEFERRED_WARNINGS))
    /\ []((last.op \in {"satisfy", "invoke"} /\ ~Declared(last.key))
             => last.result = "KeyError")

\* a condition named by a field() call, its class not finalized, was looked up
C11_Witness ==
    /\ last.op \in {"satisfy", "invoke"}
    /\ last.result = "KeyError"
    /\ ~Declared(last.key)
    /\ \E w \in 1..Len(deferred_warnings) : deferred_warnings[w].condition = last.key

Occurrences(seq, x) == Cardinality({i \in 1..Len(seq) : seq[i] = x})

RECURSIVE RegistryOccurrences(_, _, _)
RegistryOccurrences(reg, k, w) ==
    IF k > Len(reg) THEN 0
    ELSE Occurrences(reg[k].list, w) + RegistryOccurrences(reg, k + 1, w)

\* C12: every warning carried by a field of a finalized class is in the
\* registry exactly once and has been armed (supply_parameter called on it),
\* also when a decorated class inherits the fields of another.
C12_RegisteredExactlyOnce ==
    \A w \in Range(DeclaredWarnings) :
        /\ RegistryOccurrences(DEFERRED_WARNINGS, 1, w) = 1
        /\ deferred_warnings[w].message # NoMessage

\* C13: every warning in the registry is armed, so invoke(key) and
\* invoke_all() never fail with the ValueError of an unarmed warning; that
\* error comes only from DeferredWarning.invoke() called on a warning that is
\* unsatisfied, unarmed and not registered, and on a satisfied warning
\* DeferredWarning.invoke() does nothing, armed or not.
C13_OnlyUnarmedDirectInvokeFails ==
    /\ \A k \in 1..Len(DEFERRED_WARNINGS) : \A w \in Range(DEFERRED_WARNINGS[k].list) :
          deferred_warnings[w].message # NoMessage
    /\ last.op \in {"invoke", "invoke_all"} => last.result # "ValueError"
    /\ (last.op = "warning_invoke" /\ last.result = "ValueError") =>
          /\ ~deferred_warnings[last.ret].satisfied
          /\ deferred_warnings[last.ret].message = NoMessage
          /\ RegistryOccurrences(DEFERRED_WARNINGS, 1, last.ret) = 0
    /\ (last.op = "warning_invoke" /\ deferred_warnings[last.ret].satisfied) =>
          (last.result = "ok" /\ last.logged = <<>>)

\* DeferredWarning.invoke() ran on a satisfied warning that was never armed
C13_Witness ==
    /\ last.op = "warning_invoke"
    /\ deferred_warnings[last.ret].satisfied
    /\ deferred_warnings[last.ret].message = NoMessage
    /\ last.result = "ok"

\* C14: invoke(key), invoke_all() and DeferredWarning.invoke() leave the
\* registry and every warning as they were, whether they return or raise, and
\* a repeated call on the unchanged state has the same outcome.
C14_InvokeLeavesState ==
    [][/\ last'.op \in {"invoke", "invoke_all", "warning_invoke"} =>
             UNCHANGED <<deferred_warnings, DEFERRED_WARNINGS, warned_fields, classes>>
       /\ (/\ last.op \in {"invoke", "invoke_all", "warning_invoke"}
           /\ last'.op = last.op /\ last'.key = last.key /\ last'.ret = last.ret) =>
             /\ last'.result = last.result
             /\ last'.logged = last.logged
             /\ last'.raised = last.raised
             /\ last'.invoked = last.invoked]_vars

\* invoke raised on a condition that a field of a finalized class declared
C14_Witness ==
    /\ last.op = "invoke"
    /\ last.result = "KeyError"
    /\ Declared(last.key)

\* C16: for a declared key c, a second satisfy(c) right after satisfy(c)
\* raises no error and leaves every warning under c satisfied, as the first
\* call did.
C16_SatisfyIdempotent ==
    (last.op = "satisfy" /\ last.follows /\ Declared(last.key)) =>
        /\ last.result = "ok"
        /\ \A w \in Range(DeclaredUnder(last.key)) : deferred_warnings[w].satisfied

\* C17: constructing an instance of a decorated class leaves the registry and
\* every warning (satisfied flag, message) as they were and neither raises
\* nor logs a warning.
C17_ConstructLeavesWarnings ==
    [][last'.op = "construct" =>
          /\ UNCHANGED <<DEFERRED_WARNINGS, deferred_warnings>>
          /\ last'.result = "ok"
          /\ last'.logged = <<>>
          /\ last'.raised = 0]_vars

\* an instance was given a value for a field whose warning is unsatisfied
C17_Witness == last.op = "construct" /\ supplied # {}

\* C18: a satisfy(key) or invoke(key) that fails with KeyError leaves the
\* registry unchanged and does not create key in it: every key of the
\* registry has a non-empty list, and the same call on a key no field has
\* declared fails again.
C18_FailedLookupCreatesNoKey ==
    /\ [][(last'.op \in {"satisfy", "invoke"} /\ last'.result = "KeyError")
             => DEFERRED_WARNINGS' = DEFERRED_WARNINGS]_vars
    /\ [](\A k \in 1..Len(DEFERRED_WARNINGS) : DEFERRED_WARNINGS[k].list # <<>>)
    /\ []((last.op = "satisfy" /\ last.follows /\ ~Declared(last.key))
             => last.result = "KeyError")

\* satisfy was called twice in a row with a key that no field has declared
C18_Witness ==
    /\ last.op = "satisfy"
    /\ last.follows
    /\ ~Declared(last.key)
    /\ last.result = "KeyError"

RegisteredUnder(reg, key) == IF key \in Keys(reg) THEN Range(GetItem(reg, key)) ELSE {}

\* the fields of a warning other than its satisfied flag
Rest(dw) == [condition |-> dw.condition, error |-> dw.error, message |-> dw.message]

\* C19: satisfy(c) changes nothing but the satisfied flag of the warnings
\* registered under c: the registry, every message and error flag and the
\* flags of all other warnings stay, so invoke(d) for d # c is the same before
\* and after; DeferredWarning.satisfy() changes the satisfied flag of its own
\* warning only.
C19_SatisfyChangesOnlyItsFlags ==
    [][/\ last'.op = "satisfy" =>
             /\ DEFERRED_WARNINGS' = DEFERRED_WARNINGS
             /\ Len(deferred_warnings') = Len(deferred_warnings)
             /\ \A w \in 1..Len(deferred_warnings) :
                   /\ Rest(deferred_warnings'[w]) = Rest(deferred_warnings[w])
                   /\ w \notin RegisteredUnder(DEFERRED_WARNINGS, last'.key) =>
                         deferred_warnings'[w].satisfied = deferred_warnings[w].satisfied
             /\ \A d \in Conds \ {last'.key} :
                   invoke_call(d, DEFERRED_WARNINGS', deferred_warnings', <<>>) =
                   invoke_call(d, DEFERRED_WARNINGS, deferred_warnings, <<>>)
       /\ last'.op = "warning_satisfy" =>
             /\ DEFERRED_WARNINGS' = DEFERRED_WARNINGS
             /\ Len(deferred_warnings') = Len(deferred_warnings)
             /\ \A w \in 1..Len(deferred_warnings) :
                   /\ Rest(deferred_warnings'[w]) = Rest(deferred_warnings[w])
                   /\ w # last'.ret =>
                         deferred_warnings'[w].satisfied = deferred_warnings[w].satisfied]_vars

\* satisfy ran while one warning was satisfied and armed and another was not
\* satisfied
C19_Witness ==
    /\ last.op = "satisfy"
    /\ \E w \in 1..Len(deferred_warnings) :
          deferred_warnings[w].satisfied /\ deferred_warnings[w].message # NoMessage
    /\ \E w \in 1..Len(deferred_warnings) : ~deferred_warnings[w].satisfied

\* C20: a satisfied warning stays satisfied under every operation, no warning
\* object disappears, and a newly created warning is unsatisfied and has no
\* message.
C20_SatisfiedForGood ==
    [][/\ Len(deferred_warnings') >= Len(deferred_warnings)
       /\ \A w \in 1..Len(deferred_warnings) :
             deferred_warnings[w].satisfied => deferred_warnings'[w].satisfied
       /\ \A w \in (Len(deferred_warnings) + 1)..Len(deferred_warnings') :
             /\ ~deferred_warnings'[w].satisfied
             /\ deferred_warnings'[w].message = NoMessage]_vars

\* a class was defined on a field whose warning had been satisfied before
C20_Witness ==
    /\ last.op = "dataclass"
    /\ \E w \in Range(TableWarnings(classes[Len(classes)].fields, 1)) :
          deferred_warnings[w].satisfied

====
